---- MODULE Spec2Model ----
(***************************************************************************)
(* A model of gumshoe.py: GumshoeInspector samples the objects of one S3   *)
(* bucket, decodes each object, submits the text to Comprehend's PII       *)
(* classifier, filters the labels against IGNORE_TYPES and prints a        *)
(* report.                                                                 *)
(*                                                                         *)
(* Bytes are integers 0..255, text is a sequence of Unicode code points,   *)
(* an optional value (Python's None or a value) is a record                *)
(* [some, val].  Standard output is kept in two parts: out, the sequence   *)
(* of prints and service calls of the run (kind, key, ok), and report, the *)
(* lines the report step printed for the object just processed.            *)
(***************************************************************************)
EXTENDS Integers, Sequences, FiniteSets, TLC

\* ------------------------------------------------------------------ bounds

\* Largest number of objects in the bucket.
MaxKeys == 3
\* Longest byte string given to the decoder on its own.
MaxBytes == 4
\* Longest label list of a classifier response given to the filter on its own.
MaxLabels == 2
\* Largest number of runs of a run-length encoded text.
MaxRuns == 2

\* ------------------------------------------------------- program constants

\* content_str[:90000]
TRUNCATE_CHARS == 90000
\* "The actual limit is 100000 _bytes_"
SERVICE_BYTE_LIMIT == 100000
\* min(10, len(all_objects))
SAMPLE_LIMIT == 10
\* content_lines[:10], len(content_lines) > 10
PREVIEW_LIMIT == 10

IGNORE_TYPES == {"DATE_TIME", "DATE", "TIME", "IP_ADDRESS", "MAC_ADDRESS", "URL"}

\* ----------------------------------------------------------------- helpers

Min(a, b) == IF a <= b THEN a ELSE b

None == [some |-> FALSE, val |-> <<>>]
Some(v) == [some |-> TRUE, val |-> v]

\* s[:n] of a Python sequence, n >= 0
Prefix(s, n) == SubSeq(s, 1, Min(n, Len(s)))

\* ------------------------------------------------- bytes.decode('utf-8', ...)

IsContinuation(x) == x >= 128 /\ x <= 191

\* One step of the UTF-8 decoder at position i of b: either a character of
\* n bytes, or an error whose range is the next n bytes (an invalid start
\* byte, the valid prefix of a sequence broken by an invalid continuation
\* byte, or all that is left of a sequence cut by the end of the data).
Utf8Step(b, i) ==
    LET ch == b[i]
        rem == Len(b) - i + 1
        ch2 == b[i + 1]
        ch3 == b[i + 2]
        ch4 == b[i + 3]
        Char(cp, n) == [ok |-> TRUE, cp |-> cp, n |-> n]
        Err(n) == [ok |-> FALSE, cp |-> 0, n |-> n]
    IN  IF ch < 128 THEN Char(ch, 1)
        ELSE IF ch < 194 THEN Err(1)
        ELSE IF ch < 224 THEN
            IF rem < 2 THEN Err(rem)
            ELSE IF ~IsContinuation(ch2) THEN Err(1)
            ELSE Char((ch - 192) * 64 + (ch2 - 128), 2)
        ELSE IF ch < 240 THEN
            IF rem < 2 THEN Err(rem)
            ELSE IF \/ ~IsContinuation(ch2)
                    \/ (ch = 224 /\ ch2 < 160)
                    \/ (ch = 237 /\ ch2 >= 160) THEN Err(1)
            ELSE IF rem < 3 THEN Err(rem)
            ELSE IF ~IsContinuation(ch3) THEN Err(2)
            ELSE Char((ch - 224) * 4096 + (ch2 - 128) * 64 + (ch3 - 128), 3)
        ELSE IF ch < 245 THEN
            IF rem < 2 THEN Err(rem)
            ELSE IF \/ ~IsContinuation(ch2)
                    \/ (ch = 240 /\ ch2 < 144)
                    \/ (ch = 244 /\ ch2 >= 144) THEN Err(1)
            ELSE IF rem < 3 THEN Err(rem)
            ELSE IF ~IsContinuation(ch3) THEN Err(2)
            ELSE IF rem < 4 THEN Err(rem)
            ELSE IF ~IsContinuation(ch4) THEN Err(3)
            ELSE Char((ch - 240) * 262144 + (ch2 - 128) * 4096
                        + (ch3 - 128) * 64 + (ch4 - 128), 4)
        ELSE Err(1)

\* content.decode('utf-8'): the text, or raised (UnicodeDecodeError).
RECURSIVE StrictFrom(_, _)
StrictFrom(b, i) ==
    IF i > Len(b) THEN [raised |-> FALSE, text |-> <<>>]
    ELSE LET st == Utf8Step(b, i)
         IN  IF ~st.ok THEN [raised |-> TRUE, text |-> <<>>]
             ELSE LET rest == StrictFrom(b, i + st.n)
                  IN  IF rest.raised THEN rest
                      ELSE [raised |-> FALSE, text |-> <<st.cp>> \o rest.text]

DecodeStrict(b) == StrictFrom(b, 1)

\* content.decode('utf-8', errors='ignore'): every error range is skipped.
RECURSIVE IgnoreFrom(_, _)
IgnoreFrom(b, i) ==
    IF i > Len(b) THEN <<>>
    ELSE LET st == Utf8Step(b, i)
         IN  (IF st.ok THEN <<st.cp>> ELSE <<>>) \o IgnoreFrom(b, i + st.n)

DecodeIgnore(b) == [raised |-> FALSE, text |-> IgnoreFrom(b, 1)]

\* The except branch without its fallback: the error propagates.
DecodeFallbackRaises(b) == [raised |-> TRUE, text |-> <<>>]

\* except UnicodeDecodeError: content.decode('utf-8', errors='ignore')
DecodeFallback(b) == DecodeIgnore(b)

\* read_s3_object_content, after get_object: try strict, fall back to ignore.
DecodeContent(b) ==
    LET strict == DecodeStrict(b)
    IN  IF strict.raised THEN DecodeFallback(b) ELSE strict

\* ------------------------------------------------------- str.splitlines()

\* The characters str.splitlines() breaks a line at; "\r\n" is one break.
LineBreaks == {10, 11, 12, 13, 28, 29, 30, 133, 8232, 8233}

RECURSIVE SplitFrom(_, _, _)
SplitFrom(s, i, cur) ==
    IF i > Len(s) THEN (IF cur = <<>> THEN <<>> ELSE <<cur>>)
    ELSE IF s[i] \in LineBreaks THEN
        <<cur>> \o SplitFrom(s, IF s[i] = 13 /\ i < Len(s) /\ s[i + 1] = 10
                                THEN i + 2 ELSE i + 1, <<>>)
    ELSE SplitFrom(s, i + 1, Append(cur, s[i]))

\* content_str.splitlines()
Splitlines(s) == SplitFrom(s, 1, <<>>)

\* ------------------------------------------------------- the S3 bucket

Keys == 1..MaxKeys

\* The keys of S in listing order.
SortedSeq(S) ==
    CHOOSE s \in [1..Cardinality(S) -> S] :
        \A i, j \in 1..Cardinality(S) : i < j => s[i] < s[j]

Buckets == {SortedSeq(S) : S \in SUBSET Keys}

\* s3.list_objects_v2(Bucket=bucket): a single page; 'Contents' is absent
\* when the bucket lists no object.
ListObjects(b) == [has_contents |-> b # <<>>, Contents |-> b]

Range(s) == {s[i] : i \in 1..Len(s)}

\* random.sample(population, k): every sequence of k distinct elements.
RandomSample(population, k) ==
    {s \in [1..k -> Range(population)] :
        \A i, j \in 1..k : i # j => s[i] # s[j]}

\* The sample sizes and preview line counts the inspector is constructed with.
SampleSizes == {-1, 0, 2}
DisplayLines == {0, 2, 11}

\* min(10, len(all_objects)): the sample_size argument n is not read.
SampleCount(all_objects, n) == Min(SAMPLE_LIMIT, Len(all_objects))

\* The object bodies get_object may return: empty, undecodable, three
\* lines, two-byte characters around an invalid byte, eleven lines.
Bodies ==
    { <<>>,
      <<255>>,
      <<65, 10, 66, 10, 67>>,
      <<195, 169, 255, 10, 195, 169>>,
      [i \in 1..21 |-> IF i % 2 = 1 THEN 65 ELSE 10] }

\* ------------------------------------------------------- the classifier

Label(name, score) == [Name |-> name, Score |-> score]

\* A contains_pii_entities response: 'Labels' present or not.
Response(ls) == [has_labels |-> TRUE, Labels |-> ls]
NoLabelsResponse == [has_labels |-> FALSE, Labels |-> <<>>]

\* The responses the classifier gives during an inspection.
Responses ==
    { NoLabelsResponse,
      Response(<<>>),
      Response(<<Label("DATE", 50)>>),
      Response(<<Label("EMAIL", 95), Label("DATE_TIME", 50)>>) }

\* The responses given to the filter on its own.
LabelNames == IGNORE_TYPES \cup {"EMAIL", "NAME"}
Scores == {50, 95}
AllLabels == {Label(n, s) : n \in LabelNames, s \in Scores}
AllResponses ==
    {NoLabelsResponse}
        \cup {Response(ls) : ls \in UNION {[1..n -> AllLabels] : n \in 0..MaxLabels}}

\* l["Name"] in IGNORE_TYPES tested the wrong way round.
KeepsLabelInverted(l) == l.Name \in IGNORE_TYPES

\* l["Name"] not in IGNORE_TYPES
KeepsLabel(l) == l.Name \notin IGNORE_TYPES

\* process_pii_entities: the kept labels, or None without 'Labels'.
process_pii_entities(response) ==
    IF response.has_labels THEN Some(SelectSeq(response.Labels, KeepsLabel))
    ELSE None

\* `not content_str` that takes no text for empty.
IsFalsyNever(s) == FALSE

\* `not content_str`
IsFalsy(s) == s = <<>>

\* `if labels:`: not None and not empty
IsTruthy(opt) == opt.some /\ opt.val # <<>>

\* ------------------------------------------- long texts, run-length encoded

\* A text too long to write out is a sequence of runs <<cp, n>>: n >= 1
\* copies of the character cp.
RunChars == {65, 233, 8364, 128512}
RunLengths == {1, 30000, 90000, 90001}
Runs == RunChars \X RunLengths
LongTexts == UNION {[1..k -> Runs] : k \in 0..MaxRuns}

\* t[:n] of a run-length encoded text.
RECURSIVE RunsPrefix(_, _)
RunsPrefix(t, n) ==
    IF t = <<>> \/ n <= 0 THEN <<>>
    ELSE IF t[1][2] >= n THEN << <<t[1][1], n>> >>
    ELSE <<t[1]>> \o RunsPrefix(Tail(t), n - t[1][2])

\* The number of bytes of a character in UTF-8.
Utf8Width(cp) ==
    IF cp < 128 THEN 1 ELSE IF cp < 2048 THEN 2 ELSE IF cp < 65536 THEN 3 ELSE 4

\* The number of bytes boto3 sends for Text=t.
RECURSIVE RunsByteLen(_)
RunsByteLen(t) ==
    IF t = <<>> THEN 0 ELSE Utf8Width(t[1][1]) * t[1][2] + RunsByteLen(Tail(t))

\* ------------------------------------------------------------------- state

VARIABLES
    sample_size,          \* self.sample_size
    display_lines,        \* self.display_lines
    bucket,               \* the keys the bucket lists
    pc,                   \* where inspect_bucket is
    sample,               \* inspect_bucket's sample
    idx,                  \* the position of `for object_name in sample`
    content,              \* the bytes read_s3_object_content fetched
    content_str,          \* the decoded text
    content_sample,       \* the Text submitted to the classifier
    comprehend_response,  \* what check_for_pii_using_aws_comprehend returned
    labels,               \* what process_pii_entities returned
    report,               \* the lines printed for the object just reported
    out,                  \* the prints and service calls so far
    long_str,             \* a run-length encoded content_str
    long_sample           \* the run-length encoded Text submitted

vars == <<sample_size, display_lines, bucket, pc, sample, idx, content,
          content_str, content_sample, comprehend_response, labels, report,
          out, long_str, long_sample>>

config == <<sample_size, display_lines, bucket>>
long == <<long_str, long_sample>>

\* A print or a service call: key 0 for those of the bucket as a whole.
Ev(kind, key, ok) == [kind |-> kind, key |-> key, ok |-> ok]

\* A printed line of an object's report.
Line(t, name, score, i, text) ==
    [t |-> t, name |-> name, score |-> score, i |-> i, text |-> text]

\* The state of GumshoeInspector(sample_size=n, display_lines=d) before
\* inspect_bucket runs on a bucket listing b.
Constructed(n, d, b, at) ==
    /\ sample_size = n
    /\ display_lines = d
    /\ bucket = b
    /\ pc = at
    /\ sample = <<>>
    /\ idx = 0
    /\ content_str = <<>>
    /\ content_sample = <<>>
    /\ labels = None
    /\ report = <<>>
    /\ out = <<>>
    /\ long_sample = None

Init ==
    /\ \E n \in SampleSizes, d \in DisplayLines, b \in Buckets :
            Constructed(n, d, b, "start")
    /\ content = <<>>
    /\ comprehend_response = None
    /\ long_str = <<>>

\* ----------------------------------------------------------- inspect_bucket

\* print(f"  - Type: {name}, Score: {score}") for each label
LabelLines(ls) == [i \in 1..Len(ls) |-> Line("label", ls[i].Name, ls[i].Score, 0, <<>>)]

\* The preview: the header names n lines, the loop prints content_lines[:10]
\* and "..." follows when there are more than 10 lines.
PreviewLines(text, n) ==
    LET content_lines == Splitlines(text)
        shown == Prefix(content_lines, PREVIEW_LIMIT)
    IN  <<Line("header", "", 0, n, <<>>)>>
            \o [i \in 1..Len(shown) |-> Line("line", "", 0, i, shown[i])]
            \o (IF Len(content_lines) > PREVIEW_LIMIT
                THEN <<Line("more", "", 0, 0, <<>>)>> ELSE <<>>)

\* What inspect_bucket prints for an object with labels ls, text and
\* display_lines n.
ReportLines(ls, text, n) ==
    <<Line("found", "", 0, 0, <<>>)>>
        \o LabelLines(ls)
        \o (IF n > 0 THEN PreviewLines(text, n) ELSE <<>>)
        \o <<Line("blank", "", 0, 0, <<>>)>>

\* sample_s3_bucket_contents on a listing with 'Contents': a random sample.
SampleContents ==
    /\ pc = "start"
    /\ ListObjects(bucket).has_contents
    /\ LET all_objects == ListObjects(bucket).Contents
       IN  \E s \in RandomSample(all_objects, SampleCount(all_objects, sample_size)) :
               sample' = s
    /\ out' = <<Ev("print_inspecting", 0, TRUE), Ev("call_list", 0, TRUE)>>
    /\ idx' = 1
    /\ pc' = "loop"
    /\ UNCHANGED <<config, content, content_str, content_sample,
                   comprehend_response, labels, report, long>>

\* The else branch that returns [] without its message.
SampleEmptySilent ==
    /\ pc = "start"
    /\ ~ListObjects(bucket).has_contents
    /\ sample' = <<>>
    /\ out' = <<Ev("print_inspecting", 0, TRUE), Ev("call_list", 0, TRUE)>>
    /\ idx' = 1
    /\ pc' = "loop"
    /\ UNCHANGED <<config, content, content_str, content_sample,
                   comprehend_response, labels, report, long>>

\* sample_s3_bucket_contents on a listing without 'Contents': the message
\* and an empty sample.
SampleEmpty ==
    /\ pc = "start"
    /\ ~ListObjects(bucket).has_contents
    /\ sample' = <<>>
    /\ out' = <<Ev("print_inspecting", 0, TRUE), Ev("call_list", 0, TRUE),
                Ev("print_empty_bucket", 0, TRUE)>>
    /\ idx' = 1
    /\ pc' = "loop"
    /\ UNCHANGED <<config, content, content_str, content_sample,
                   comprehend_response, labels, report, long>>

\* list_objects_v2 raises: nothing catches it.
ListRaises ==
    /\ pc = "start"
    /\ out' = <<Ev("print_inspecting", 0, TRUE), Ev("call_list", 0, FALSE)>>
    /\ pc' = "crashed"
    /\ UNCHANGED <<config, sample, idx, content, content_str, content_sample,
                   comprehend_response, labels, report, long>>

\* The loop takes the next key: "Checking ...", get_object, decode.  The
\* locals of the previous iteration are dead and are cleared.
FetchObject ==
    /\ pc = "loop"
    /\ idx <= Len(sample)
    /\ \E body \in Bodies :
        LET decoded == DecodeContent(body)
        IN  /\ content' = body
            /\ content_str' = decoded.text
            /\ pc' = IF decoded.raised THEN "crashed" ELSE "check"
    /\ out' = out \o <<Ev("print_checking", sample[idx], TRUE),
                       Ev("call_get", sample[idx], TRUE)>>
    /\ content_sample' = <<>>
    /\ comprehend_response' = None
    /\ labels' = None
    /\ report' = <<>>
    /\ UNCHANGED <<config, sample, idx, long>>

\* get_object raises: nothing catches it.
GetRaises ==
    /\ pc = "loop"
    /\ idx <= Len(sample)
    /\ out' = out \o <<Ev("print_checking", sample[idx], TRUE),
                       Ev("call_get", sample[idx], FALSE)>>
    /\ pc' = "crashed"
    /\ UNCHANGED <<config, sample, idx, content, content_str, content_sample,
                   comprehend_response, labels, report, long>>

\* check_for_pii_using_aws_comprehend on empty content returns None and
\* the loop continues.
CheckEmpty ==
    /\ pc = "check"
    /\ IsFalsy(content_str)
    /\ out' = out \o <<Ev("print_empty_content", sample[idx], TRUE)>>
    /\ comprehend_response' = None
    /\ idx' = idx + 1
    /\ pc' = "loop"
    /\ UNCHANGED <<config, sample, content, content_str, content_sample,
                   labels, report, long>>

\* check_for_pii_using_aws_comprehend submits content_str[:90000] and the
\* classifier answers.
ClassifyOk ==
    /\ pc = "check"
    /\ ~IsFalsy(content_str)
    /\ content_sample' = Prefix(content_str, TRUNCATE_CHARS)
    /\ \E r \in Responses : comprehend_response' = Some(r)
    /\ out' = out \o <<Ev("call_classify", sample[idx], TRUE)>>
    /\ pc' = "process"
    /\ UNCHANGED <<config, sample, idx, content, content_str, labels, report, long>>

\* A failed classification caught and the object skipped.
ClassifyRaisesSkipped ==
    /\ pc = "check"
    /\ ~IsFalsy(content_str)
    /\ content_sample' = Prefix(content_str, TRUNCATE_CHARS)
    /\ out' = out \o <<Ev("call_classify", sample[idx], FALSE)>>
    /\ idx' = idx + 1
    /\ pc' = "loop"
    /\ UNCHANGED <<config, sample, content, content_str, comprehend_response,
                   labels, report, long>>

\* contains_pii_entities raises: nothing catches it.
ClassifyRaises ==
    /\ pc = "check"
    /\ ~IsFalsy(content_str)
    /\ content_sample' = Prefix(content_str, TRUNCATE_CHARS)
    /\ out' = out \o <<Ev("call_classify", sample[idx], FALSE)>>
    /\ pc' = "crashed"
    /\ UNCHANGED <<config, sample, idx, content, content_str,
                   comprehend_response, labels, report, long>>

\* The loop that takes the same key again.
ReportStays ==
    /\ pc = "process"
    /\ labels' = process_pii_entities(comprehend_response.val)
    /\ report' = <<Line("nopii", "", 0, 0, <<>>)>>
    /\ out' = out \o <<Ev("print_no_pii", sample[idx], TRUE)>>
    /\ pc' = "loop"
    /\ UNCHANGED <<config, sample, idx, content, content_str, content_sample,
                   comprehend_response, long>>

\* process_pii_entities, then the findings and the preview, or "No PII
\* entities found"; the loop goes on.
Report ==
    /\ pc = "process"
    /\ labels' = process_pii_entities(comprehend_response.val)
    /\ IF IsTruthy(labels')
       THEN /\ report' = ReportLines(labels'.val, content_str, display_lines)
            /\ out' = out \o <<Ev("print_found", sample[idx], TRUE)>>
       ELSE /\ report' = <<Line("nopii", "", 0, 0, <<>>)>>
            /\ out' = out \o <<Ev("print_no_pii", sample[idx], TRUE)>>
    /\ idx' = idx + 1
    /\ pc' = "loop"
    /\ UNCHANGED <<config, sample, content, content_str, content_sample,
                   comprehend_response, long>>

\* The sample is exhausted: inspect_bucket returns.
Return ==
    /\ pc = "loop"
    /\ idx > Len(sample)
    /\ pc' = "done"
    /\ UNCHANGED <<config, sample, idx, content, content_str, content_sample,
                   comprehend_response, labels, report, out, long>>

Next ==
    \/ SampleContents
    \/ SampleEmpty
    \/ ListRaises
    \/ FetchObject
    \/ GetRaises
    \/ CheckEmpty
    \/ ClassifyOk
    \/ ClassifyRaises
    \/ Report
    \/ Return

Spec == Init /\ [][Next]_vars

\* ------------------------------------------ the decoder on its own

ByteAlphabet == {65, 128, 169, 195, 224, 237, 240, 244, 255}
ByteStrings == UNION {[1..n -> ByteAlphabet] : n \in 0..MaxBytes}

InitDecode ==
    /\ Constructed(10, 10, <<>>, "decode")
    /\ content \in ByteStrings
    /\ comprehend_response = None
    /\ long_str = <<>>

\* read_s3_object_content on the bytes in content.
DecodeOnly ==
    /\ pc = "decode"
    /\ content_str' = DecodeContent(content).text
    /\ pc' = IF DecodeContent(content).raised THEN "crashed" ELSE "decoded"
    /\ UNCHANGED <<config, sample, idx, content, content_sample,
                   comprehend_response, labels, report, out, long>>

SpecDecode == InitDecode /\ [][DecodeOnly]_vars

\* ------------------------------------------- the filter on its own

InitFilter ==
    /\ Constructed(10, 10, <<>>, "filter")
    /\ content = <<>>
    /\ \E r \in AllResponses : comprehend_response = Some(r)
    /\ long_str = <<>>

\* process_pii_entities on the response in comprehend_response.
FilterOnly ==
    /\ pc = "filter"
    /\ labels' = process_pii_entities(comprehend_response.val)
    /\ pc' = "filtered"
    /\ UNCHANGED <<config, sample, idx, content, content_str, content_sample,
                   comprehend_response, report, out, long>>

SpecFilter == InitFilter /\ [][FilterOnly]_vars

\* ------------------------------- the truncation on its own, on long texts

InitTruncate ==
    /\ Constructed(10, 10, <<>>, "truncate")
    /\ content = <<>>
    /\ comprehend_response = None
    /\ long_str \in LongTexts

\* check_for_pii_using_aws_comprehend on empty content: no call.
TruncateEmpty ==
    /\ pc = "truncate"
    /\ long_str = <<>>
    /\ long_sample' = None
    /\ pc' = "skipped"
    /\ UNCHANGED <<config, sample, idx, content, content_str, content_sample,
                   comprehend_response, labels, report, out, long_str>>

\* check_for_pii_using_aws_comprehend submits content_str[:90000].
TruncateSubmit ==
    /\ pc = "truncate"
    /\ long_str # <<>>
    /\ long_sample' = Some(RunsPrefix(long_str, TRUNCATE_CHARS))
    /\ pc' = "submitted"
    /\ UNCHANGED <<config, sample, idx, content, content_str, content_sample,
                   comprehend_response, labels, report, out, long_str>>

NextTruncate == TruncateEmpty \/ TruncateSubmit

SpecTruncate == InitTruncate /\ [][NextTruncate]_vars

\* ------------------------------------------------------------ the claims

\* The listing call returned and the sample was drawn.
Sampled == pc \notin {"start", "decode", "decoded", "filter", "filtered",
                      "truncate", "skipped", "submitted"}
              /\ Len(out) >= 2 /\ out[2].ok

IsList(e) == e.kind = "call_list"
IsGet(e) == e.kind = "call_get"
IsClassify(e) == e.kind = "call_classify"
IsTerminal(e) == e.kind \in {"print_empty_content", "print_found", "print_no_pii"}
OfObject(e) == e.key # 0

KeysOf(es) == [i \in 1..Len(es) |-> es[i].key]
KindsOf(es) == [i \in 1..Len(es) |-> es[i].kind]

\* No object was fetched and no text was classified.
NoObjectTouched == \A i \in 1..Len(out) : ~IsGet(out[i]) /\ ~IsClassify(out[i])

\* C1: once the sample is drawn, its length is min(sample_size, number of
\* keys listed), for every sample size n >= 0.
C1_SampleLengthIsConfigured ==
    (Sampled /\ sample_size >= 0) => Len(sample) = Min(sample_size, Len(bucket))

\* C2: the text submitted to the classifier never takes more than 100,000
\* bytes in UTF-8.
C2_PayloadWithinByteLimit ==
    pc = "submitted" => RunsByteLen(long_sample.val) <= SERVICE_BYTE_LIMIT

\* The positions of ls whose category is outside the ignore-set, and the
\* i-th of them.
ClaimIgnoreSet == {"DATE_TIME", "DATE", "TIME", "IP_ADDRESS", "MAC_ADDRESS", "URL"}
KeptPositions(ls) == {j \in 1..Len(ls) : ls[j].Name \notin ClaimIgnoreSet}
NthKept(ls, i) ==
    CHOOSE j \in KeptPositions(ls) :
        Cardinality({k \in KeptPositions(ls) : k <= j}) = i

\* res is the subsequence of ls of the findings outside the ignore-set.
IsFilteredFrom(res, ls) ==
    /\ Len(res) = Cardinality(KeptPositions(ls))
    /\ \A i \in 1..Len(res) : res[i] = ls[NthKept(ls, i)]

\* C3 as stated: for every response the filter returns a sequence, the
\* subsequence of the findings outside the ignore-set in response order.
C3_FilterAlwaysReturnsSubsequence ==
    pc = "filtered" =>
        /\ labels.some
        /\ IsFilteredFrom(labels.val, comprehend_response.val.Labels)

\* C3 amended: for a response that carries 'Labels' the filter returns the
\* subsequence of the findings outside the ignore-set in response order;
\* for a response without 'Labels' it returns None.
C3_FilterReturnsSubsequenceOrNone ==
    pc = "filtered" =>
        IF comprehend_response.val.has_labels
        THEN /\ labels.some
             /\ IsFilteredFrom(labels.val, comprehend_response.val.Labels)
        ELSE labels = None

\* A response of which the filter kept a finding and dropped another.
C3_Witness ==
    /\ pc = "filtered"
    /\ labels.some
    /\ labels.val # <<>>
    /\ Len(labels.val) < Len(comprehend_response.val.Labels)

\* The position of key k in the sample.
SamplePos(k) == CHOOSE p \in 1..Len(sample) : sample[p] = k

\* C4: when the decoded content of the key at hand is empty, the step taken
\* prints "Empty content", makes no classifier call, filters and reports
\* nothing and moves to the next key; and a key reported empty never has a
\* classifier call or a findings report, and what follows its report is the
\* next sampled key.
C4_EmptyContentSkipsClassification ==
    /\ [][(pc = "check" /\ content_str = <<>>) =>
            /\ out' = Append(out, Ev("print_empty_content", sample[idx], TRUE))
            /\ comprehend_response' = None
            /\ labels' = None
            /\ report' = <<>>
            /\ idx' = idx + 1
            /\ pc' = "loop"]_vars
    /\ [](\A i \in 1..Len(out) :
            out[i].kind = "print_empty_content" =>
                /\ i > 1 /\ out[i - 1] = Ev("call_get", out[i].key, TRUE)
                /\ \A j \in 1..Len(out) :
                        out[j].key = out[i].key =>
                            out[j].kind \notin {"call_classify", "print_found",
                                                "print_no_pii"}
                /\ i < Len(out) =>
                        /\ SamplePos(out[i].key) < Len(sample)
                        /\ out[i + 1] = Ev("print_checking",
                                           sample[SamplePos(out[i].key) + 1], TRUE))

\* An undecodable object was reported empty and another key is still to come.
C4_Witness ==
    /\ pc = "loop"
    /\ content = <<255>>
    /\ content_str = <<>>
    /\ out[Len(out)].kind = "print_empty_content"
    /\ idx <= Len(sample)

IsContentLine(l) == l.t = "line"
ShownLines(r) ==
    LET ls == SelectSeq(r, IsContentLine) IN [i \in 1..Len(ls) |-> ls[i].text]

\* C6: a findings report shows the first min(display_lines, number of
\* lines) lines of the text when display_lines > 0 and no line when it is 0.
C6_PreviewFollowsDisplayLines ==
    (pc \in {"loop", "done"} /\ report # <<>> /\ report[1].t = "found") =>
        ShownLines(report) =
            IF display_lines > 0
            THEN Prefix(Splitlines(content_str), display_lines)
            ELSE <<>>

\* The UTF-8 encoding of a character and of a text.
EncodeChar(cp) ==
    IF cp < 128 THEN <<cp>>
    ELSE IF cp < 2048 THEN <<192 + (cp \div 64), 128 + (cp % 64)>>
    ELSE IF cp < 65536 THEN
        <<224 + (cp \div 4096), 128 + ((cp \div 64) % 64), 128 + (cp % 64)>>
    ELSE <<240 + (cp \div 262144), 128 + ((cp \div 4096) % 64),
           128 + ((cp \div 64) % 64), 128 + (cp % 64)>>

RECURSIVE Encode(_)
Encode(t) == IF t = <<>> THEN <<>> ELSE EncodeChar(t[1]) \o Encode(Tail(t))

\* Text: Unicode scalar values.
IsText(t) ==
    \A i \in 1..Len(t) : t[i] \in 0..1114111 /\ ~(t[i] >= 55296 /\ t[i] <= 57343)

\* The length of the well-formed UTF-8 byte sequence at position i of b
\* (the Unicode standard's table of well-formed sequences), 0 if none.
WellFormedAt(b, i) ==
    LET In(k, lo, hi) == i + k <= Len(b) /\ b[i + k] >= lo /\ b[i + k] <= hi
    IN  IF In(0, 0, 127) THEN 1
        ELSE IF In(0, 194, 223) /\ In(1, 128, 191) THEN 2
        ELSE IF In(0, 224, 224) /\ In(1, 160, 191) /\ In(2, 128, 191) THEN 3
        ELSE IF In(0, 225, 236) /\ In(1, 128, 191) /\ In(2, 128, 191) THEN 3
        ELSE IF In(0, 237, 237) /\ In(1, 128, 159) /\ In(2, 128, 191) THEN 3
        ELSE IF In(0, 238, 239) /\ In(1, 128, 191) /\ In(2, 128, 191) THEN 3
        ELSE IF In(0, 240, 240) /\ In(1, 144, 191) /\ In(2, 128, 191)
                /\ In(3, 128, 191) THEN 4
        ELSE IF In(0, 241, 243) /\ In(1, 128, 191) /\ In(2, 128, 191)
                /\ In(3, 128, 191) THEN 4
        ELSE IF In(0, 244, 244) /\ In(1, 128, 143) /\ In(2, 128, 191)
                /\ In(3, 128, 191) THEN 4
        ELSE 0

\* The bytes of b that belong to its well-formed sequences, in order.
RECURSIVE ValidPartsFrom(_, _)
ValidPartsFrom(b, i) ==
    IF i > Len(b) THEN <<>>
    ELSE LET n == WellFormedAt(b, i)
         IN  IF n > 0 THEN SubSeq(b, i, i + n - 1) \o ValidPartsFrom(b, i + n)
             ELSE ValidPartsFrom(b, i + 1)

ValidParts(b) == ValidPartsFrom(b, 1)

C8_NonPositiveSampleSizeIsEmpty ==
    (Sampled /\ sample_size <= 0) => (sample = <<>> /\ NoObjectTouched)

\* C9: a classify call is made at most once per key, and a failed classify
\* call is the last thing the run does: the run has crashed and nothing is
\* fetched, classified or printed after it.
C9_ClassifyFailureIsFatal ==
    \A i \in 1..Len(out) :
        IsClassify(out[i]) =>
            /\ \A j \in 1..Len(out) :
                    (IsClassify(out[j]) /\ out[j].key = out[i].key) => j = i
            /\ ~out[i].ok => (i = Len(out) /\ pc = "crashed")

\* A classify call failed on a key that is not the last of the sample,
\* after another key was processed.
C9_Witness ==
    /\ pc = "crashed"
    /\ Len(out) > 0
    /\ IsClassify(out[Len(out)])
    /\ idx > 1
    /\ idx < Len(sample)

\* The prints and calls about key k, in order.
EventsOf(k) ==
    LET About(e) == e.key = k IN KindsOf(SelectSeq(out, About))

\* What a key's events are when it is fully processed.
KeyRuns ==
    { <<"print_checking", "call_get", "print_empty_content">>,
      <<"print_checking", "call_get", "call_classify", "print_found">>,
      <<"print_checking", "call_get", "call_classify", "print_no_pii">> }

IsPrefixOf(a, b) == Len(a) <= Len(b) /\ a = SubSeq(b, 1, Len(a))

NoFailure == \A i \in 1..Len(out) : out[i].ok

\* C10: in a run without a failed call the bucket is listed once; the keys
\* are taken in sample order, one after the other; each key is fetched
\* once, classified at most once and only after its fetch, and ends with
\* one report (empty, findings, no PII); and after the last key the
\* inspection returns and does nothing more.
C10_SequentialSingleCompletion ==
    (Sampled /\ NoFailure) =>
        LET objs == SelectSeq(out, OfObject)
            seen == Cardinality({objs[i].key : i \in 1..Len(objs)})
        IN  /\ Len(SelectSeq(out, IsList)) = 1
            /\ seen <= Len(sample)
            \* the keys appear in sample order, each key's events together
            /\ \A i \in 1..Len(objs) :
                    /\ objs[i].key \in Range(sample)
                    /\ SamplePos(objs[i].key) <= seen
                    /\ i < Len(objs) =>
                        SamplePos(objs[i].key) <= SamplePos(objs[i + 1].key)
            \* every key before the last one seen is fully processed
            /\ \A p \in 1..seen :
                    IF p < seen \/ pc \in {"loop", "done"}
                    THEN EventsOf(sample[p]) \in KeyRuns
                    ELSE \E r \in KeyRuns : IsPrefixOf(EventsOf(sample[p]), r)
            /\ pc \in {"loop", "done"} => seen = idx - 1
            /\ pc = "done" => (seen = Len(sample) /\ ~ENABLED Next)
            /\ (pc = "loop" /\ seen = Len(sample)) =>
                    /\ ENABLED Return
                    /\ ~ENABLED (SampleContents \/ SampleEmpty \/ ListRaises
                                    \/ FetchObject \/ GetRaises)

\* A run of at least two keys returned, with two kinds of report.
C10_Witness ==
    /\ pc = "done"
    /\ NoFailure
    /\ Len(sample) >= 2
    /\ \E i, j \in 1..Len(out) :
            out[i].kind = "print_found" /\ out[j].kind = "print_empty_content"

====
